---- MODULE Spec2Model ----
(***************************************************************************)
(* Model of s2e_env/commands/code_coverage/basic_block.py: the basic block *)
(* coverage engine (_binary_search, _get_basic_block_coverage), the        *)
(* disassembly cache, the JSON and drcov report writers and the module     *)
(* loop of BasicBlockCoverage.handle.                                      *)
(*                                                                         *)
(* Conventions.  Python lists are sequences; Python indices are 0-based    *)
(* and kept 0-based here (At(l, i) reads l[i]).  BasicBlock defines        *)
(* neither __eq__ nor __hash__, so a set of BasicBlock objects is a set of *)
(* object identities: a covered set is modelled as the set of the 0-based  *)
(* positions, in the block list, of the objects it holds.  A raised        *)
(* exception is modelled by its class name.                                *)
(***************************************************************************)
EXTENDS Integers, Sequences, FiniteSets, TLC

VARIABLES
    pc,           \* position of the operation under analysis
    bbs,          \* the basic block list handed to the engine
    tb_coverage,  \* state id -> list of (tb_start, tb_end, size)
    tb_start,     \* the address handed to _binary_search on its own
    result,       \* what the operation returned
    raised,       \* the exception that left the operation, or NoError
    fs,           \* the file system: cache file, reports, drcov directory
    log,          \* logger.error records
    run           \* the inputs and progress of one command run

vars == <<pc, bbs, tb_coverage, tb_start, result, raised, fs, log, run>>

----------------------------------------------------------------------------
(* Bounds of the model *)

\* addresses are 0..MaxAddr
MaxAddr == 2
\* longest basic block list
MaxBBs == 2
\* most intervals in one tb_coverage mapping, over all its states
MaxTbs == 2
\* longest block list handed to _binary_search on its own
MaxSearchBBs == 4
\* longest block list of the exact-interval runs
MaxExactBBs == 5
\* the report and cache runs use the addresses 0..SaveMaxAddr
SaveMaxAddr == 1
\* the clock of the cache runs reads at most MaxClock
MaxClock == 1
\* most modules in one trace
MaxModules == 3

NoError == "none"
None == "None"

Addrs == 0..MaxAddr
\* two state ids: enough to tell "the same state" from "another state"
StateIds == {0, 1}

----------------------------------------------------------------------------
(* BasicBlock *)

\* BasicBlock.__init__: function defaults to '' when falsy
BasicBlock(start_addr, end_addr, function) ==
    [start_addr |-> start_addr,
     end_addr   |-> end_addr,
     function   |-> IF function = None \/ function = "" THEN "" ELSE function]

\* l[i] of a Python list
At(l, i) == l[i + 1]

\* sorted ascending by start_addr, as list.sort(key=lambda bb: bb.start_addr)
\* leaves a list
IsSorted(l) ==
    \A i \in 1..(Len(l) - 1) : l[i].start_addr <= l[i + 1].start_addr

----------------------------------------------------------------------------
(* _binary_search *)

RECURSIVE SearchLoop(_, _, _, _)
\* the while loop of _binary_search
SearchLoop(tb_start_addr, l, lo, hi) ==
    IF lo <= hi
    THEN LET mid == (lo + hi) \div 2
         IN  IF At(l, mid).start_addr < tb_start_addr
             THEN SearchLoop(tb_start_addr, l, mid + 1, hi)
             ELSE IF At(l, mid).start_addr > tb_start_addr
             THEN SearchLoop(tb_start_addr, l, lo, mid - 1)
             ELSE mid
    ELSE Len(l)

RECURSIVE SearchLoopInsertionPoint(_, _, _, _)
\* a variant that is not the code: a search that returns the insertion point lo when nothing matches
SearchLoopInsertionPoint(tb_start_addr, l, lo, hi) ==
    IF lo <= hi
    THEN LET mid == (lo + hi) \div 2
         IN  IF At(l, mid).start_addr < tb_start_addr
             THEN SearchLoopInsertionPoint(tb_start_addr, l, mid + 1, hi)
             ELSE IF At(l, mid).start_addr > tb_start_addr
             THEN SearchLoopInsertionPoint(tb_start_addr, l, lo, mid - 1)
             ELSE mid
    ELSE lo

\* the loop as _binary_search runs it
BinarySearchLoop(tb_start_addr, l, lo, hi) ==
    SearchLoop(tb_start_addr, l, lo, hi)

\* _binary_search(tb_start_addr, bbs): an index in 0..len(bbs); reading
\* bbs[0] from an empty list raises IndexError
_binary_search(tb_start_addr, l) ==
    LET num_bbs == Len(l)
        lo == 0
        hi == num_bbs - 1
    IN  IF num_bbs = 0 THEN [raised |-> "IndexError", value |-> None]
        ELSE IF tb_start_addr <= At(l, 0).end_addr
        THEN [raised |-> NoError, value |-> 0]
        ELSE IF tb_start_addr > At(l, hi).end_addr
        THEN [raised |-> NoError, value |-> num_bbs]
        ELSE [raised |-> NoError,
              value  |-> BinarySearchLoop(tb_start_addr, l, lo, hi)]

----------------------------------------------------------------------------
(* _get_basic_block_coverage *)

\* a variant that is not the code: the end bound of the second test is dropped
OverlapsNoEndBound(bb, tb_start_addr, tb_end_addr) ==
    \/ (bb.end_addr >= tb_start_addr /\ tb_start_addr >= bb.start_addr)
    \/ bb.start_addr <= tb_end_addr

\* the test of lines 151-152
Overlaps(bb, tb_start_addr, tb_end_addr) ==
    \/ (bb.end_addr >= tb_start_addr /\ tb_start_addr >= bb.start_addr)
    \/ (bb.start_addr <= tb_end_addr /\ tb_end_addr <= bb.end_addr)

RECURSIVE Scan(_, _, _, _)
\* for i in range(start_idx, num_bbs): the indices added for one interval
Scan(l, i, tb_start_addr, tb_end_addr) ==
    IF i >= Len(l) THEN {}
    ELSE LET bb  == At(l, i)
             hit == IF Overlaps(bb, tb_start_addr, tb_end_addr) THEN {i} ELSE {}
         IN  IF bb.start_addr > tb_end_addr
             THEN hit
             ELSE hit \cup Scan(l, i + 1, tb_start_addr, tb_end_addr)

\* the body of "for tb_start_addr, tb_end_addr, _ in coverage" for one
\* interval: the indices it adds to covered_bbs[state]
CoverInterval(tb, l) ==
    LET start_idx == _binary_search(tb[1], l).value
    IN  Scan(l, start_idx, tb[1], tb[2])

\* the indices one state's interval list adds to covered_bbs[state]
CoverState(coverage, l) ==
    UNION {CoverInterval(coverage[k], l) : k \in DOMAIN coverage}

\* _get_basic_block_coverage(tb_coverage, bbs).  The first interval met
\* calls _binary_search, whose IndexError (empty block list) leaves the
\* function; otherwise the defaultdict holds a key for each state that had a
\* block added.
_get_basic_block_coverage(tbc, l) ==
    IF \E s \in DOMAIN tbc : \E k \in DOMAIN tbc[s] :
          _binary_search(tbc[s][k][1], l).raised # NoError
    THEN [raised |-> "IndexError", value |-> None]
    ELSE LET keys == {s \in DOMAIN tbc : CoverState(tbc[s], l) # {}}
         IN  [raised |-> NoError,
              value  |-> [s \in keys |-> CoverState(tbc[s], l)]]

----------------------------------------------------------------------------
(* Inputs *)

Blocks == {BasicBlock(a[1], a[2], "") : a \in {x \in Addrs \X Addrs : x[1] <= x[2]}}

RECURSIVE SortedLists(_)
\* the block lists of length n that are sorted ascending by start_addr
SortedLists(n) ==
    IF n = 0 THEN {<<>>}
    ELSE {Append(p[1], p[2]) :
            p \in {q \in SortedLists(n - 1) \X Blocks :
                     \/ Len(q[1]) = 0
                     \/ q[1][Len(q[1])].start_addr <= q[2].start_addr}}

SortedBBs == UNION {SortedLists(n) : n \in 0..MaxBBs}

SortedBBsUpTo(max) == UNION {SortedLists(n) : n \in 1..max}

\* the executed translation blocks over a set of addresses:
\* (start, end, size) with start <= end
TbsOver(A) == {<<a[1], a[2], a[2] - a[1]>> : a \in {x \in A \X A : x[1] <= x[2]}}

RECURSIVE TbLists(_, _)
\* the lists of n translation blocks out of T
TbLists(T, n) ==
    IF n = 0 THEN {<<>>}
    ELSE {Append(l, t) : l \in TbLists(T, n - 1), t \in T}

\* the mappings state -> list of translation blocks out of T with at most
\* MaxTbs of them in all: any set of states may be present, each with a
\* list that may be empty
TbCoveragesOf(T) ==
    UNION {
      {f \in [D -> UNION {TbLists(T, n) : n \in 0..MaxTbs}] :
         \A s \in D : \A t \in D : s # t => Len(f[s]) + Len(f[t]) <= MaxTbs}
      : D \in SUBSET StateIds}

TbCoveragesOver(A) == TbCoveragesOf(TbsOver(A))

TbCoverages == TbCoveragesOver(Addrs)

----------------------------------------------------------------------------
(* The engine on its own *)

NoFs == [none |-> TRUE]
NoRun == [none |-> TRUE]

InitSearch ==
    /\ pc = "search_call"
    /\ bbs \in SortedBBsUpTo(MaxSearchBBs)
    /\ tb_start \in 0..(MaxAddr + 1)
    /\ tb_coverage = <<>>
    /\ result = None
    /\ raised = NoError
    /\ fs = NoFs
    /\ log = <<>>
    /\ run = NoRun

BinarySearch ==
    /\ pc = "search_call"
    /\ pc' = "search_done"
    /\ \E r \in {_binary_search(tb_start, bbs)} :
           /\ result' = r.value
           /\ raised' = r.raised
    /\ UNCHANGED <<bbs, tb_coverage, tb_start, fs, log, run>>

NextSearch == BinarySearch

SpecSearch == InitSearch /\ [][NextSearch]_vars

InitEngine ==
    /\ pc = "engine_call"
    /\ bbs \in SortedBBs
    /\ tb_coverage \in TbCoverages
    /\ tb_start = None
    /\ result = None
    /\ raised = NoError
    /\ fs = NoFs
    /\ log = <<>>
    /\ run = NoRun

GetBasicBlockCoverage ==
    /\ pc = "engine_call"
    /\ pc' = "engine_done"
    /\ \E r \in {_get_basic_block_coverage(tb_coverage, bbs)} :
           /\ result' = r.value
           /\ raised' = r.raised
    /\ UNCHANGED <<bbs, tb_coverage, tb_start, fs, log, run>>

NextEngine == GetBasicBlockCoverage

SpecEngine == InitEngine /\ [][NextEngine]_vars

\* the engine called with one state whose single interval is exactly the
\* block at position run.k of the list
InitExact ==
    /\ pc = "engine_call"
    /\ bbs \in SortedBBsUpTo(MaxExactBBs)
    /\ run \in [k : 0..(MaxExactBBs - 1)]
    /\ run.k < Len(bbs)
    /\ tb_coverage = (0 :> <<<<At(bbs, run.k).start_addr,
                               At(bbs, run.k).end_addr,
                               At(bbs, run.k).end_addr - At(bbs, run.k).start_addr>>>>)
    /\ tb_start = None
    /\ result = None
    /\ raised = NoError
    /\ fs = NoFs
    /\ log = <<>>

SpecExact == InitExact /\ [][NextEngine]_vars

----------------------------------------------------------------------------
(* Claims about the engine *)

EngineDone == pc = "engine_done"

\* covered_bbs.get(s, set()) of the returned mapping
Covered(s) == IF s \in DOMAIN result THEN result[s] ELSE {}

\* the interval tb starts inside block bb or ends inside it
StartsOrEndsInside(bb, tb) ==
    \/ (bb.start_addr <= tb[1] /\ tb[1] <= bb.end_addr)
    \/ (bb.start_addr <= tb[2] /\ tb[2] <= bb.end_addr)

\* C1: for a non-empty sorted block list, a block is in a state's result set
\* if and only if some interval of that state starts or ends inside it.
C1_CoveredIffOverlap ==
    (EngineDone /\ Len(bbs) > 0) =>
        /\ raised = NoError
        /\ \A s \in DOMAIN tb_coverage : \A i \in 0..(Len(bbs) - 1) :
              (i \in Covered(s)) <=>
              (\E k \in DOMAIN tb_coverage[s] :
                  StartsOrEndsInside(At(bbs, i), tb_coverage[s][k]))

\* C2: a state whose interval is exactly the block at position k of a sorted
\* list has that very block in its covered set.
C2_ExactIntervalCovered ==
    EngineDone =>
        /\ raised = NoError
        /\ 0 \in DOMAIN result
        /\ run.k \in result[0]

\* C3: no false positives.  Every element of a state's set is a block of
\* the input list in which an interval of that same state starts or ends.
C3_NoFalsePositives ==
    (EngineDone /\ raised = NoError) =>
        /\ DOMAIN result \subseteq DOMAIN tb_coverage
        /\ \A s \in DOMAIN result : \A i \in result[s] :
              /\ i \in 0..(Len(bbs) - 1)
              /\ \E k \in DOMAIN tb_coverage[s] :
                    StartsOrEndsInside(At(bbs, i), tb_coverage[s][k])

\* a block lying entirely before or entirely after the interval
Apart(bb, tb) == bb.end_addr < tb[1] \/ tb[2] < bb.start_addr

\* C3 witness: a block covered for one state while another state, whose
\* intervals all lie apart from the block, does not have it.
C3_Witness ==
    /\ EngineDone
    /\ raised = NoError
    /\ \E s \in DOMAIN tb_coverage : \E t \in DOMAIN tb_coverage :
       \E i \in 0..(Len(bbs) - 1) :
          /\ s # t
          /\ i \in Covered(s)
          /\ Len(tb_coverage[t]) > 0
          /\ \A k \in DOMAIN tb_coverage[t] : Apart(At(bbs, i), tb_coverage[t][k])
          /\ i \notin Covered(t)

\* C8: the engine terminates normally on an empty mapping, on a state with
\* an empty interval list and on an empty block list, and a state with an
\* empty interval list gets no entry or an empty set.
C8_NoRaiseOnEmptyInput ==
    (EngineDone /\ (\/ DOMAIN tb_coverage = {}
                    \/ \E s \in DOMAIN tb_coverage : Len(tb_coverage[s]) = 0
                    \/ Len(bbs) = 0)) =>
        /\ raised = NoError
        /\ \A s \in DOMAIN tb_coverage :
              Len(tb_coverage[s]) = 0 => Covered(s) = {}

\* C9: the value of _binary_search on a non-empty sorted list.
C9_BinarySearchResult ==
    (pc = "search_done") =>
        /\ raised = NoError
        /\ result \in 0..Len(bbs)
        /\ IF tb_start <= bbs[1].end_addr THEN result = 0
           ELSE IF tb_start > bbs[Len(bbs)].end_addr THEN result = Len(bbs)
           ELSE IF \E i \in 1..Len(bbs) : bbs[i].start_addr = tb_start
           THEN result < Len(bbs) /\ At(bbs, result).start_addr = tb_start
           ELSE result = Len(bbs)

\* C9 witness: an address past the first block and not past the last one at
\* which no block starts; the search answers len(bbs).
C9_Witness ==
    /\ pc = "search_done"
    /\ tb_start > bbs[1].end_addr
    /\ tb_start <= bbs[Len(bbs)].end_addr
    /\ \A i \in 1..Len(bbs) : bbs[i].start_addr # tb_start
    /\ \E i \in 1..Len(bbs) : bbs[i].start_addr < tb_start /\ tb_start <= bbs[i].end_addr
    /\ result = Len(bbs)

----------------------------------------------------------------------------
(* Files and paths *)

ProjectDir == "proj"
OtherDir == "lib"

\* a path is a directory and a base name; a bare file name has directory ""
Path(dir, base) == [dir |-> dir, base |-> base]

\* os.path.basename(module_path)
Basename(p) == p.base

\* ProjectCommand.project_path(name) is os.path.join(project_dir, name): a
\* name that carries its own (absolute) directory wins the join
project_path(p) == IF p.dir = "" THEN Path(ProjectDir, p.base) ELSE p

\* The file system.  disas: path of a module -> its .disas file (mtime and
\* text); project_mtime: mtime of the project directory; clock: now;
\* reports: module name -> s2e-last/<module>_coverage.json; drcov_dir:
\* whether s2e-last/drcov exists; drcov_files: (module, state) -> drcov file.
FreshFs ==
    [disas         |-> <<>>,
     project_mtime |-> 0,
     clock         |-> 0,
     reports       |-> <<>>,
     drcov_dir     |-> FALSE,
     drcov_files   |-> <<>>]

----------------------------------------------------------------------------
(* JSON text of the .disas file: an object is its list of (key, value) *)

JsonHas(d, key) == \E i \in DOMAIN d : d[i][1] = key

JsonGet(d, key) == d[CHOOSE i \in DOMAIN d : d[i][1] = key][2]

\* BasicBlockEncoder.default
BasicBlockEncoder(o) ==
    <<<<"start_addr", o.start_addr>>,
      <<"end_addr", o.end_addr>>,
      <<"function", o.function>>>>

\* BasicBlockDecoder.object_hook
object_hook(d) ==
    IF JsonHas(d, "start_addr")
    THEN BasicBlock(JsonGet(d, "start_addr"), JsonGet(d, "end_addr"),
                    JsonGet(d, "function"))
    ELSE d

\* BasicBlockCoverage._make_disassembly_info
_make_disassembly_info(l, base_addr, end_addr) ==
    [bbs |-> l, base_addr |-> base_addr, end_addr |-> end_addr]

\* json.dump(disas_info, disas_file, cls=BasicBlockEncoder)
JsonDumpDisas(info) ==
    <<<<"bbs", [i \in DOMAIN info.bbs |-> BasicBlockEncoder(info.bbs[i])]>>,
      <<"base_addr", info.base_addr>>,
      <<"end_addr", info.end_addr>>>>

\* json.load(disas_file, cls=BasicBlockDecoder): the hook runs on every
\* object, innermost first; the outer object has no start_addr and stays a
\* dict with the keys bbs, base_addr and end_addr
JsonLoadDisas(text) ==
    LET inner == [i \in DOMAIN JsonGet(text, "bbs") |->
                     object_hook(JsonGet(text, "bbs")[i])]
    IN  [bbs       |-> inner,
         base_addr |-> JsonGet(text, "base_addr"),
         end_addr  |-> JsonGet(text, "end_addr")]

----------------------------------------------------------------------------
(* The disassembly cache *)

NoInfo == [bbs |-> <<>>, base_addr |-> 0, end_addr |-> 0]

\* _get_cached_disassembly_info(module): hit is FALSE where the code
\* returns None
_get_cached_disassembly_info(f, module) ==
    LET disas_path == project_path(module)
    IN  IF disas_path \notin DOMAIN f.disas
        THEN [hit |-> FALSE, info |-> NoInfo]
        ELSE LET disas_mtime  == f.disas[disas_path].mtime
                 target_mtime == f.project_mtime
             IN  IF disas_mtime < target_mtime
                 THEN [hit |-> FALSE, info |-> NoInfo]
                 ELSE [hit  |-> TRUE,
                       info |-> JsonLoadDisas(f.disas[disas_path].text)]

\* the clock at a later moment, to the resolution of a file's mtime: the
\* same reading, or a later one
Later(f) == {f.clock, f.clock + 1}

\* _save_disassembly_info(module, disas_info): open(disas_path, 'w') and
\* json.dump, at the time now.  Creating a file in the project directory
\* stamps the directory with now (every older .disas file of the directory
\* is stale from then on); rewriting an existing one stamps only the file.
_save_disassembly_info(f, module, disas_info, now) ==
    LET disas_path == project_path(Path("", module))
        file == [mtime |-> now, text |-> JsonDumpDisas(disas_info)]
    IN  [f EXCEPT
           !.clock = now,
           !.disas = (disas_path :> file) @@ @,
           !.project_mtime =
               IF disas_path \in DOMAIN f.disas THEN @ ELSE now]

\* the list after the insertion of b behind every block that does not start
\* after it (l is sorted)
SortedInsert(l, b) ==
    LET k == Cardinality({i \in DOMAIN l : l[i].start_addr <= b.start_addr})
    IN  SubSeq(l, 1, k) \o <<b>> \o SubSeq(l, k + 1, Len(l))

\* a variant that is not the code: the sort is left out
NoSort(l) == l

RECURSIVE SortByStart(_)
\* disas_info['bbs'].sort(key=lambda bb: bb.start_addr): a stable sort
SortByStart(l) ==
    IF Len(l) = 0 THEN <<>>
    ELSE SortedInsert(SortByStart(SubSeq(l, 1, Len(l) - 1)), l[Len(l)])

\* _get_disas_info(module, module_path), the cache file being written at
\* the time now.  disassembled is what the
\* disassembler backend (_get_disassembly_info) answers for the module:
\* found is FALSE where it answers nothing.
_get_disas_info(f, module, module_path, disassembled, now) ==
    LET cached == _get_cached_disassembly_info(f, module_path)
    IN  IF cached.hit
        THEN [raised |-> NoError, fs |-> f, info |-> cached.info,
              hit |-> TRUE, saved |-> FALSE]
        ELSE IF ~disassembled.found
        THEN [raised |-> "CommandError", fs |-> f, info |-> NoInfo,
              hit |-> FALSE, saved |-> FALSE]
        ELSE LET info == [disassembled.info EXCEPT !.bbs = SortByStart(@)]
             IN  [raised |-> NoError,
                  fs     |-> _save_disassembly_info(f, module, info, now),
                  info   |-> info,
                  hit    |-> FALSE,
                  saved  |-> TRUE]

----------------------------------------------------------------------------
(* The report writers *)

\* the lambda to_dict of _save_basic_block_coverage
to_dict(bb) ==
    <<<<"start_addr", bb.start_addr>>,
      <<"end_addr", bb.end_addr>>,
      <<"function", bb.function>>>>

RECURSIVE Orders(_)
\* the orders in which a set or the keys of a dict may be iterated
Orders(S) ==
    IF S = {} THEN {<<>>}
    ELSE UNION {{<<x>> \o o : o \in Orders(S \ {x})} : x \in S}

RECURSIVE ValuesOrders(_, _)
\* for bbs in basic_blocks.values() for bb in bbs, the states taken in the
\* order states: the positions of the blocks in the order they are visited
ValuesOrders(basic_blocks, states) ==
    IF Len(states) = 0 THEN {<<>>}
    ELSE {h \o t : h \in Orders(basic_blocks[Head(states)]),
                   t \in ValuesOrders(basic_blocks, Tail(states))}

\* basic_blocks is a dict of sets of objects hashed by identity: its keys
\* come in the order the states were first covered, the elements of a set
\* in an order that changes from run to run.  Every order is possible.
IterationOrders(basic_blocks) ==
    UNION {ValuesOrders(basic_blocks, states) :
              states \in Orders(DOMAIN basic_blocks)}

\* [to_dict(bb) for bbs in basic_blocks.values() for bb in bbs]: the lists
\* the comprehension may build
CoverageLists(basic_blocks, l) ==
    {[k \in DOMAIN order |-> to_dict(At(l, order[k]))] :
        order \in IterationOrders(basic_blocks)}

\* _save_basic_block_coverage(module, basic_blocks, total_bbs,
\* num_covered_bbs): the file systems with the JSON report written, one for
\* each order of the coverage list
_save_basic_block_coverage(f, module, basic_blocks, l, total_bbs, num_covered_bbs) ==
    {[f EXCEPT !.reports =
         (module :> [stats    |-> [total_basic_blocks   |-> total_bbs,
                                   covered_basic_blocks |-> num_covered_bbs],
                     coverage |-> coverage]) @@ @] :
        coverage \in CoverageLists(basic_blocks, l)}

\* open(file, mode, encoding=...): a binary mode takes no encoding argument
Open(mode, encoding) ==
    IF mode = "wb" /\ encoding # None THEN "ValueError" ELSE NoError

\* if os.path.isdir(drcov_dir): raise CommandError
DrcovDirCheck(f) == IF f.drcov_dir THEN "CommandError" ELSE NoError

\* a variant that is not the code: a directory creation that accepts an existing directory
os_makedirs_exist_ok(f) ==
    [raised |-> NoError, fs |-> [f EXCEPT !.drcov_dir = TRUE]]

\* os.mkdir(drcov_dir)
os_mkdir(f) ==
    IF f.drcov_dir
    THEN [raised |-> "FileExistsError", fs |-> f]
    ELSE [raised |-> NoError, fs |-> [f EXCEPT !.drcov_dir = TRUE]]

\* the loop over basic_blocks.items() of _save_drcov.  Whichever state the
\* dict yields first (here the lowest), the outcome is the same: the first
\* open(drcov_file, 'wb', encoding='utf-8') raises ValueError before the
\* file exists; were the file opened, f.write(self.DRCOV_HEADER) would hand
\* a str to a binary file and raise TypeError with the file left empty.
DrcovWriteFiles(f, module, module_base, module_end, basic_blocks, l) ==
    IF DOMAIN basic_blocks = {} THEN [raised |-> NoError, fs |-> f]
    ELSE LET state == CHOOSE x \in DOMAIN basic_blocks :
                         \A y \in DOMAIN basic_blocks : x <= y
         IN  IF Open("wb", "utf-8") # NoError
             THEN [raised |-> Open("wb", "utf-8"), fs |-> f]
             ELSE [raised |-> "TypeError",
                   fs |-> [f EXCEPT !.drcov_files =
                              (<<module, state>> :> [n |-> 0, records |-> <<>>]) @@ @]]

\* _save_drcov(module_path, module_base, module_end, basic_blocks)
_save_drcov(f, module_path, module_base, module_end, basic_blocks, l) ==
    IF DrcovDirCheck(f) # NoError
    THEN [raised |-> DrcovDirCheck(f), fs |-> f]
    ELSE LET made == os_mkdir(f)
         IN  IF made.raised # NoError THEN made
             ELSE DrcovWriteFiles(made.fs, Basename(module_path), module_base,
                                  module_end, basic_blocks, l)

RECURSIVE SumOfSizes(_, _)
SumOfSizes(basic_blocks, states) ==
    IF states = {} THEN 0
    ELSE LET s == CHOOSE x \in states : TRUE
         IN  Cardinality(basic_blocks[s]) + SumOfSizes(basic_blocks, states \ {s})

\* a variant that is not the code: the per-state counts are added up
NumCoveredSum(bb_coverage) == SumOfSizes(bb_coverage, DOMAIN bb_coverage)

\* len(set(itertools.chain(*iter(bb_coverage.values()))))
NumCovered(bb_coverage) ==
    Cardinality(UNION {bb_coverage[s] : s \in DOMAIN bb_coverage})

\* _save_coverage(module_path, tb_coverage, drcov_format) on the file system
\* f, with the disassembler's answer for the module and the time now of a
\* write of the cache file: the set of the possible outcomes (they differ
\* in the order of the coverage list of the JSON report).  called tells
\* whether _get_basic_block_coverage was reached; bbs is the list it was
\* given.
_save_coverage(f, module_path, tbc, drcov_format, disassembled, now) ==
    LET module_name == Basename(module_path)
        d == _get_disas_info(f, module_name, module_path, disassembled, now)
        l == d.info.bbs
        c == _get_basic_block_coverage(tbc, l)
        out(r, fs2, called, cov) ==
            [raised |-> r, fs |-> fs2, called |-> called, bbs |-> l,
             bb_coverage |-> cov, info |-> d.info, hit |-> d.hit,
             saved |-> d.saved]
    IN  IF d.raised # NoError THEN {out(d.raised, d.fs, FALSE, <<>>)}
        ELSE IF c.raised # NoError THEN {out(c.raised, d.fs, TRUE, <<>>)}
        ELSE IF DOMAIN c.value = {} THEN {out("CommandError", d.fs, TRUE, c.value)}
        ELSE LET total_bbs       == Len(l)
                 num_covered_bbs == NumCovered(c.value)
             IN  IF drcov_format
                 THEN LET w == _save_drcov(d.fs, module_path, d.info.base_addr,
                                           d.info.end_addr, c.value, l)
                      IN  {out(w.raised, w.fs, TRUE, c.value)}
                 ELSE {out(NoError, fs2, TRUE, c.value) :
                          fs2 \in _save_basic_block_coverage(
                                     d.fs, module_name, c.value, l,
                                     total_bbs, num_covered_bbs)}

----------------------------------------------------------------------------
(* One run of _save_coverage on a fresh project *)

SaveAddrs == 0..SaveMaxAddr

SaveBlocks ==
    {BasicBlock(a[1], a[2], "") : a \in {x \in SaveAddrs \X SaveAddrs : x[1] <= x[2]}}

RECURSIVE BlockLists(_, _)
\* the lists of n blocks out of B, in any order
BlockLists(B, n) ==
    IF n = 0 THEN {<<>>}
    ELSE {Append(l, b) : l \in BlockLists(B, n - 1), b \in B}

NotFound == [found |-> FALSE, info |-> NoInfo]

\* the highest end address of a block list, 0 for the empty list
LastAddr(l) ==
    IF Len(l) = 0 THEN 0
    ELSE CHOOSE e \in {l[i].end_addr : i \in DOMAIN l} :
            \A i \in DOMAIN l : l[i].end_addr <= e

\* what the disassembler may answer: nothing, or one of the block lists
\* with the module bounds (base 0, end the last address of a block)
DisassembledFrom(lists) ==
    {NotFound} \cup
    {[found |-> TRUE, info |-> _make_disassembly_info(l, 0, LastAddr(l))] :
        l \in lists}

\* blocks in any order, repetitions included
Disassembled == DisassembledFrom(UNION {BlockLists(SaveBlocks, n) : n \in 0..MaxBBs})

\* the translation blocks of the report runs: one instruction at an address
SaveTbs == {<<a, a, 0>> : a \in SaveAddrs}

ModuleName == "m"

InitReport ==
    /\ pc = "save_call"
    /\ run \in [module_path  : {Path(ProjectDir, ModuleName)},
                drcov        : BOOLEAN,
                disassembled : Disassembled,
                called       : {FALSE},
                hit          : {FALSE}]
    /\ tb_coverage \in TbCoveragesOf(SaveTbs)
    /\ bbs = <<>>
    /\ tb_start = None
    /\ result = <<>>
    /\ raised = NoError
    /\ fs = FreshFs
    /\ log = <<>>

SaveCoverage ==
    /\ pc = "save_call"
    /\ pc' = "save_done"
    /\ \E now \in Later(fs) :
       \E r \in _save_coverage(fs, run.module_path, tb_coverage, run.drcov,
                                run.disassembled, now) :
           /\ fs' = r.fs
           /\ raised' = r.raised
           /\ bbs' = r.bbs
           /\ result' = r.bb_coverage
           /\ run' = [run EXCEPT !.called = r.called, !.hit = r.hit]
    /\ UNCHANGED <<tb_coverage, tb_start, log>>

NextReport == SaveCoverage

SpecReport == InitReport /\ [][NextReport]_vars

----------------------------------------------------------------------------
(* Claims about one run of _save_coverage *)

SaveDone == pc = "save_done"

\* the run wrote the JSON report
JsonWritten == SaveDone /\ ~run.drcov /\ raised = NoError

\* some block is in the covered set of two states
SharedBlock ==
    \E s \in DOMAIN result : \E t \in DOMAIN result :
        s # t /\ result[s] \cap result[t] # {}

\* C7: the JSON report lists one entry per (state, covered block) pair;
\* covered_basic_blocks counts the distinct covered blocks,
\* total_basic_blocks the static list, covered <= total, and the list is as
\* long as covered_basic_blocks exactly when no block is shared by states.
C7_JsonReportCounts ==
    JsonWritten =>
        /\ ModuleName \in DOMAIN fs.reports
        /\ LET rep == fs.reports[ModuleName]
               covered == rep.stats.covered_basic_blocks
           IN  /\ Len(rep.coverage) = SumOfSizes(result, DOMAIN result)
               /\ \A s \in DOMAIN result : \A i \in result[s] :
                     \E k \in DOMAIN rep.coverage :
                        /\ JsonGet(rep.coverage[k], "start_addr") = At(bbs, i).start_addr
                        /\ JsonGet(rep.coverage[k], "end_addr") = At(bbs, i).end_addr
               /\ covered = Cardinality(UNION {result[s] : s \in DOMAIN result})
               /\ rep.stats.total_basic_blocks = Len(bbs)
               /\ covered <= rep.stats.total_basic_blocks
               /\ (Len(rep.coverage) = covered) <=> ~SharedBlock

\* C7 witness: a report written for a run in which two states share a block
C7_Witness ==
    /\ JsonWritten
    /\ SharedBlock
    /\ Len(fs.reports[ModuleName].coverage) >
          fs.reports[ModuleName].stats.covered_basic_blocks

\* C6: after _save_drcov ran on a coverage result, there is one drcov file
\* per state, whose count n equals the number of its records and the size
\* of the state's covered set, each record being
\* (start_addr - module_base, end_addr - start_addr, 0).
C6_DrcovFilePerState ==
    (SaveDone /\ run.drcov /\ run.called /\ DOMAIN result # {}) =>
        /\ raised = NoError
        /\ DOMAIN fs.drcov_files = {<<ModuleName, s>> : s \in DOMAIN result}
        /\ \A s \in DOMAIN result :
              LET file == fs.drcov_files[<<ModuleName, s>>]
              IN  /\ file.n = Cardinality(result[s])
                  /\ file.n = Len(file.records)
                  /\ \A i \in result[s] : \E k \in DOMAIN file.records :
                        file.records[k] =
                           <<At(bbs, i).start_addr - run.disassembled.info.base_addr,
                             At(bbs, i).end_addr - At(bbs, i).start_addr,
                             0>>

----------------------------------------------------------------------------
(* Runs of _save_coverage over the life of a project: the cache *)

\* the intervals of the cache runs: one state that ran the whole range
CacheTb == (0 :> <<<<0, SaveMaxAddr, SaveMaxAddr>>>>)

NothingSaved == [valid |-> FALSE, info |-> NoInfo]

\* the blocks of the cache runs: one block at each address
CacheBlocks == {BasicBlock(a, a + 1, "") : a \in SaveAddrs}

\* the disassembler's answers of the cache runs: lists of at most MaxBBs of
\* these blocks in any order, each block listed once
DisassembledOnce ==
    DisassembledFrom({l \in UNION {BlockLists(CacheBlocks, n) : n \in 0..MaxBBs} :
                        \A i \in DOMAIN l : \A j \in DOMAIN l :
                            i # j => l[i] # l[j]})

InitCache ==
    /\ pc = "save_call"
    /\ run = [called |-> FALSE,
              hit    |-> FALSE,
              info   |-> NoInfo,
              saved  |-> NothingSaved,
              regenerated |-> FALSE]
    /\ tb_coverage = CacheTb
    /\ bbs = <<>>
    /\ tb_start = None
    /\ result = <<>>
    /\ raised = NoError
    /\ fs = FreshFs
    /\ log = <<>>

\* one run of _save_coverage (JSON report) for the module, found in the
\* project directory or elsewhere on the search path; run.saved remembers
\* what the last _save_disassembly_info was given, run.regenerated whether
\* some run found the cache file stale and wrote it again
SaveCoverageRun ==
    \E dir \in {ProjectDir, OtherDir} :
    \E dis \in DisassembledOnce :
    \E now \in {t \in Later(fs) : t <= MaxClock} :
    \E r \in _save_coverage(fs, Path(dir, ModuleName), tb_coverage, FALSE, dis, now) :
        /\ pc' = "save_done"
        /\ fs' = r.fs
        /\ raised' = r.raised
        /\ bbs' = r.bbs
        /\ result' = r.bb_coverage
        /\ run' = [called |-> r.called,
                   hit    |-> r.hit,
                   info   |-> r.info,
                   saved  |-> IF r.saved
                              THEN [valid |-> TRUE, info |-> r.info]
                              ELSE run.saved,
                   regenerated |->
                       \/ run.regenerated
                       \/ /\ r.saved
                          /\ dir = ProjectDir
                          /\ Path(dir, ModuleName) \in DOMAIN fs.disas]
        /\ UNCHANGED <<tb_coverage, tb_start, log>>

\* something in the project directory changes: its mtime moves on
ProjectDirChanges ==
    /\ fs.clock < MaxClock
    /\ fs' = [fs EXCEPT !.clock = @ + 1, !.project_mtime = fs.clock + 1]
    /\ UNCHANGED <<pc, bbs, tb_coverage, tb_start, result, raised, log, run>>

NextCache == SaveCoverageRun \/ ProjectDirChanges

SpecCache == InitCache /\ [][NextCache]_vars

\* C10: the list given to _get_basic_block_coverage is sorted by start_addr,
\* fresh from the disassembler or loaded from the cache, and a cache hit
\* returns the list and the module bounds that were saved.
C10_EngineInputSorted ==
    SaveDone =>
        /\ run.called => IsSorted(bbs)
        /\ run.hit =>
              /\ run.saved.valid
              /\ run.info.bbs = run.saved.info.bbs
              /\ run.info.base_addr = run.saved.info.base_addr
              /\ run.info.end_addr = run.saved.info.end_addr
              /\ bbs = run.saved.info.bbs

\* C10 witness: a cache hit on a file regenerated after the project
\* directory changed, holding blocks with different start addresses
C10_Witness ==
    /\ SaveDone
    /\ run.hit
    /\ run.called
    /\ Len(bbs) >= 2
    /\ bbs[1].start_addr < bbs[2].start_addr
    /\ run.regenerated

----------------------------------------------------------------------------
(* BasicBlockCoverage.handle: the loop over the modules of a trace *)

\* A module of the trace is named by its position in tb_coverage_files.
\* resolvable: whether guess_target_path finds it; disassembled and tb: what
\* the disassembler and the trace hold for it.
CoveredModule ==
    [resolvable   |-> TRUE,
     disassembled |-> [found |-> TRUE,
                       info |-> _make_disassembly_info(
                                   <<BasicBlock(1, 1, ""), BasicBlock(0, 0, "")>>, 0, 1)],
     tb           |-> (0 :> <<<<0, 0, 0>>>> @@ 1 :> <<<<1, 1, 0>>>>)]

\* a module whose intervals touch none of its blocks
UncoveredModule ==
    [resolvable   |-> TRUE,
     disassembled |-> [found |-> TRUE,
                       info |-> _make_disassembly_info(
                                   <<BasicBlock(0, 0, "")>>, 0, 1)],
     tb           |-> (0 :> <<<<1, 1, 0>>>>)]

\* a module that guess_target_path does not find
UnresolvableModule ==
    [resolvable   |-> FALSE,
     disassembled |-> NotFound,
     tb           |-> (0 :> <<<<0, 0, 0>>>>)]

ModuleKinds == {CoveredModule, UncoveredModule, UnresolvableModule}

RECURSIVE Traces(_)
Traces(n) ==
    IF n = 0 THEN {<<>>}
    ELSE {Append(t, m) : t \in Traces(n - 1), m \in ModuleKinds}

\* run.i is the position of the next module of the loop
InitHandle ==
    /\ pc = "handle_loop"
    /\ run \in [modules : UNION {Traces(n) : n \in 0..MaxModules},
                drcov   : BOOLEAN,
                i       : {0}]
    /\ tb_coverage = <<>>
    /\ bbs = <<>>
    /\ tb_start = None
    /\ result = <<>>
    /\ raised = NoError
    /\ fs = FreshFs
    /\ log = <<>>

\* guess_target_path raises: logger.error(e); continue
HandleUnresolvable ==
    /\ pc = "handle_loop"
    /\ run.i < Len(run.modules)
    /\ ~At(run.modules, run.i).resolvable
    /\ log' = Append(log, run.i)
    /\ run' = [run EXCEPT !.i = @ + 1]
    /\ UNCHANGED <<pc, bbs, tb_coverage, tb_start, result, raised, fs>>

\* self._save_coverage(actual_module_path, tb_coverage, options['drcov']);
\* an exception leaves handle
HandleSaveCoverage ==
    /\ pc = "handle_loop"
    /\ run.i < Len(run.modules)
    /\ At(run.modules, run.i).resolvable
    /\ \E now \in Later(fs) :
       \E r \in _save_coverage(fs, Path(ProjectDir, run.i),
                                At(run.modules, run.i).tb, run.drcov,
                                At(run.modules, run.i).disassembled, now) :
           /\ fs' = r.fs
           /\ raised' = r.raised
           /\ bbs' = r.bbs
           /\ result' = r.bb_coverage
           /\ tb_coverage' = At(run.modules, run.i).tb
           /\ pc' = IF r.raised = NoError THEN "handle_loop" ELSE "handle_raised"
           /\ run' = [run EXCEPT !.i = IF r.raised = NoError THEN @ + 1 ELSE @]
    /\ UNCHANGED <<tb_start, log>>

\* the loop is over
HandleReturn ==
    /\ pc = "handle_loop"
    /\ run.i = Len(run.modules)
    /\ pc' = "handle_done"
    /\ UNCHANGED <<bbs, tb_coverage, tb_start, result, raised, fs, log, run>>

NextHandle == HandleUnresolvable \/ HandleSaveCoverage \/ HandleReturn

SpecHandle == InitHandle /\ [][NextHandle]_vars

\* a report exists for the module at position i
ReportExists(i) ==
    IF run.drcov
    THEN \E key \in DOMAIN fs.drcov_files : key[1] = i
    ELSE i \in DOMAIN fs.reports

\* handle is over, and the trace holds an unresolvable module while every
\* resolvable one has disassembly and coverage data
PartialFailureRun ==
    /\ pc \in {"handle_done", "handle_raised"}
    /\ \E i \in DOMAIN run.modules : run.modules[i] = UnresolvableModule
    /\ \A i \in DOMAIN run.modules :
          run.modules[i] \in {UnresolvableModule, CoveredModule}

\* C4: in either report format, handle logs an error for each unresolvable
\* module, does not abort and leaves a report for every resolvable module.
C4_PartialFailure ==
    PartialFailureRun =>
        /\ pc = "handle_done"
        /\ raised = NoError
        /\ \A i \in 0..(Len(run.modules) - 1) :
              IF At(run.modules, i).resolvable
              THEN ReportExists(i)
              ELSE \E k \in DOMAIN log : log[k] = i

----------------------------------------------------------------------------
(* Two invocations of _save_drcov on the same drcov directory *)

Invocations == {1, 2}

\* the non-empty coverage results over a list of two blocks
DrcovInputs ==
    UNION {[D -> {{0}, {1}, {0, 1}}] : D \in (SUBSET StateIds) \ {{}}}

\* pc[p] and raised[p] are those of invocation p; run[p] holds its
\* basic_blocks, whether it got past os.mkdir (made) and the files it wrote
InitDrcov ==
    /\ pc = [p \in Invocations |-> "isdir"]
    /\ raised = [p \in Invocations |-> NoError]
    /\ run \in [Invocations -> [basic_blocks : DrcovInputs,
                                made : {FALSE},
                                wrote : {{}}]]
    /\ bbs = <<BasicBlock(0, 0, ""), BasicBlock(1, 1, "")>>
    /\ tb_coverage = <<>>
    /\ tb_start = None
    /\ result = <<>>
    /\ fs = FreshFs
    /\ log = <<>>

\* if os.path.isdir(drcov_dir): raise CommandError
DrcovIsdir(p) ==
    /\ pc[p] = "isdir"
    /\ pc' = [pc EXCEPT ![p] = IF DrcovDirCheck(fs) = NoError THEN "mkdir" ELSE "raised"]
    /\ raised' = [raised EXCEPT ![p] = DrcovDirCheck(fs)]
    /\ UNCHANGED <<bbs, tb_coverage, tb_start, result, fs, log, run>>

\* os.mkdir(drcov_dir)
DrcovMkdir(p) ==
    /\ pc[p] = "mkdir"
    /\ \E r \in {os_mkdir(fs)} :
           /\ fs' = r.fs
           /\ raised' = [raised EXCEPT ![p] = r.raised]
           /\ pc' = [pc EXCEPT ![p] = IF r.raised = NoError THEN "write" ELSE "raised"]
           /\ run' = [run EXCEPT ![p].made = (r.raised = NoError)]
    /\ UNCHANGED <<bbs, tb_coverage, tb_start, result, log>>

\* the loop that writes the files
DrcovWrite(p) ==
    /\ pc[p] = "write"
    /\ \E r \in {DrcovWriteFiles(fs, ModuleName, 0, 1, run[p].basic_blocks, bbs)} :
           /\ fs' = r.fs
           /\ raised' = [raised EXCEPT ![p] = r.raised]
           /\ pc' = [pc EXCEPT ![p] = IF r.raised = NoError THEN "returned" ELSE "raised"]
           /\ run' = [run EXCEPT ![p].wrote = DOMAIN r.fs.drcov_files \ DOMAIN fs.drcov_files]
    /\ UNCHANGED <<bbs, tb_coverage, tb_start, result, log>>

NextDrcov == \E p \in Invocations : DrcovIsdir(p) \/ DrcovMkdir(p) \/ DrcovWrite(p)

SpecDrcov == InitDrcov /\ [][NextDrcov]_vars

Finished(p) == pc[p] \in {"raised", "returned"}

\* C5: of two invocations on the same drcov directory at most one gets past
\* the directory creation; one that does not ends with an error and has
\* written no file, and every file of the directory comes from the one that
\* created it.
C5_OneWriter ==
    /\ Cardinality({p \in Invocations : run[p].made}) <= 1
    /\ \A p \in Invocations :
          /\ (pc[p] \in {"write", "returned"}) => run[p].made
          /\ (Finished(p) /\ ~run[p].made) =>
                /\ raised[p] \in {"CommandError", "FileExistsError"}
                /\ run[p].wrote = {}
          /\ ~run[p].made => run[p].wrote = {}
    /\ (\A p \in Invocations : Finished(p)) =>
          \E p \in Invocations : ~run[p].made
    /\ fs.drcov_dir <=> \E p \in Invocations : run[p].made

\* C5 witness: interleaved, both invocations saw no directory; one created
\* it and the other's os.mkdir raised
C5_Witness ==
    \E p \in Invocations : \E q \in Invocations :
        /\ run[p].made
        /\ Finished(p)
        /\ raised[q] = "FileExistsError"

====
